---- MODULE Spec2Model ----
(***************************************************************************)
(* Model of benchmark.py: the response parser (parse_json_response), the   *)
(* correctness evaluator (check_correctness) and the run orchestrator      *)
(* (main) that iterates models x test cases.                               *)
(*                                                                         *)
(* A text is a sequence of one-character strings.  A Python value is a     *)
(* record of one fixed shape, tagged by t.                                 *)
(***************************************************************************)
EXTENDS Integers, Sequences, FiniteSets, TLC

(***************************************************************************)
(* Texts                                                                   *)
(***************************************************************************)
\* A string literal as a sequence of characters.
Chars(str) == [i \in 1..Len(str) |-> SubSeq(str, i, i)]

\* The backtick character U+0060 (the lexer of TLA+ cannot hold it in a
\* string literal, so it is named).
Backtick == "BQ"

\* The absent text (Python None where a str is expected).
NoText == <<"None">>

UpperChars == Chars("ABCDEFGHIJKLMNOPQRSTUVWXYZ")
LowerChars == Chars("abcdefghijklmnopqrstuvwxyz")
DigitChars == Chars("0123456789")
Digit == {DigitChars[k] : k \in 1..10}
DigitVal(c) == (CHOOSE k \in 1..10 : DigitChars[k] = c) - 1

\* str.lower()
LowerChar(c) ==
  IF \E k \in 1..26 : UpperChars[k] = c
    THEN LowerChars[CHOOSE k \in 1..26 : UpperChars[k] = c]
    ELSE c
Lower(s) == [i \in 1..Len(s) |-> LowerChar(s[i])]

\* needle in hay
Contains(needle, hay) ==
  \E i \in 0..(Len(hay) - Len(needle)) :
     SubSeq(hay, i + 1, i + Len(needle)) = needle

\* str.strip(): the whitespace str.strip() removes
PyWhitespace == {" ", "\t", "\n", "\r", "\f"}
RECURSIVE LStrip(_)
LStrip(s) == IF s # <<>> /\ Head(s) \in PyWhitespace THEN LStrip(Tail(s)) ELSE s
RECURSIVE RStrip(_)
RStrip(s) ==
  IF s # <<>> /\ s[Len(s)] \in PyWhitespace
    THEN RStrip(SubSeq(s, 1, Len(s) - 1)) ELSE s
Strip(s) == RStrip(LStrip(s))

\* str.replace(pat, ""): leftmost non-overlapping occurrences removed
RECURSIVE RemoveAll(_, _)
RemoveAll(s, pat) ==
  IF Len(s) < Len(pat) THEN s
  ELSE IF SubSeq(s, 1, Len(pat)) = pat
    THEN RemoveAll(SubSeq(s, Len(pat) + 1, Len(s)), pat)
    ELSE <<Head(s)>> \o RemoveAll(Tail(s), pat)

\* The six backticks of line 118.
SixBackticks == [i \in 1..6 |-> Backtick]

(***************************************************************************)
(* Python values                                                           *)
(***************************************************************************)
V(tag, str, num, ex, ng, its) ==
  [t |-> tag, s |-> str, n |-> num, e |-> ex, neg |-> ng, items |-> its]
VNone == V("none", <<>>, 0, 0, FALSE, <<>>)
VBool(b) == V("bool", <<>>, IF b THEN 1 ELSE 0, 0, FALSE, <<>>)
VStr(s) == V("str", s, 0, 0, FALSE, <<>>)
VInt(n) == V("int", <<>>, n, 0, FALSE, <<>>)
\* a finite float (-1)^neg * m * 10^e, m without trailing zeros
VFloat(ng, m, ex) == V("float", <<>>, m, ex, ng, <<>>)
\* nan, inf, -inf
VFloatSpecial(name) == V("float", name, 0, 0, FALSE, <<>>)
VList(its) == V("list", <<>>, 0, 0, FALSE, its)
\* a dict: its items <<key, value>> in insertion order
VDict(its) == V("dict", <<>>, 0, 0, FALSE, its)

\* d[key] = val on the items of a dict
DictSet(its, key, val) ==
  IF \E i \in 1..Len(its) : its[i][1] = key
    THEN [i \in 1..Len(its) |-> IF its[i][1] = key THEN <<key, val>> ELSE its[i]]
    ELSE Append(its, <<key, val>>)

(***************************************************************************)
(* json.loads: the decoder of the standard library, on texts               *)
(***************************************************************************)
\* The result of a scan: a value and the index after it, or a failure
\* (the decoder raising).
R(okay, value, endIdx) == [ok |-> okay, val |-> value, end |-> endIdx]
Fail == R(FALSE, VNone, 0)

\* s[i], or "" past either end
At(s, i) == IF i >= 1 /\ i <= Len(s) THEN s[i] ELSE ""
\* s[i:i+len(lit)] == lit
StartsWith(s, i, lit) ==
  /\ i + Len(lit) - 1 <= Len(s)
  /\ SubSeq(s, i, i + Len(lit) - 1) = lit

JsonWhitespace == {" ", "\t", "\n", "\r"}
RECURSIVE SkipWS(_, _)
SkipWS(s, i) == IF At(s, i) \in JsonWhitespace THEN SkipWS(s, i + 1) ELSE i

RECURSIVE DigitsEnd(_, _)
DigitsEnd(s, i) == IF At(s, i) \in Digit THEN DigitsEnd(s, i + 1) ELSE i

RECURSIVE DigitsToNat(_)
DigitsToNat(ds) ==
  IF ds = <<>> THEN 0
  ELSE 10 * DigitsToNat(SubSeq(ds, 1, Len(ds) - 1)) + DigitVal(ds[Len(ds)])

RECURSIVE NatToDigits(_)
NatToDigits(n) ==
  IF n < 10 THEN <<DigitChars[n + 1]>>
  ELSE Append(NatToDigits(n \div 10), DigitChars[(n % 10) + 1])

\* a float's mantissa without trailing zeros
RECURSIVE Normalise(_, _)
Normalise(m, ex) ==
  IF m = 0 THEN <<0, 0>>
  ELSE IF m % 10 = 0 THEN Normalise(m \div 10, ex + 1)
  ELSE <<m, ex>>

\* NUMBER_RE = (-?(?:0|[1-9]\d*))(\.\d+)?([eE][-+]?\d+)?
IntPartEnd(s, i) ==
  LET j == IF At(s, i) = "-" THEN i + 1 ELSE i
  IN  IF At(s, j) = "0" THEN j + 1
      ELSE IF At(s, j) \in Digit THEN DigitsEnd(s, j + 1)
      ELSE 0
FracEnd(s, i) ==
  IF At(s, i) = "." /\ At(s, i + 1) \in Digit THEN DigitsEnd(s, i + 1) ELSE i
ExpEnd(s, i) ==
  IF At(s, i) \in {"e", "E"}
    THEN LET j == IF At(s, i + 1) \in {"+", "-"} THEN i + 2 ELSE i + 1
         IN  IF At(s, j) \in Digit THEN DigitsEnd(s, j) ELSE i
    ELSE i

\* A number: an int when it has neither fraction nor exponent, else a float.
ScanNumber(s, i) ==
  LET ie == IntPartEnd(s, i)
      fe == FracEnd(s, ie)
      ee == ExpEnd(s, fe)
      ng == At(s, i) = "-"
      intDigits == SubSeq(s, IF ng THEN i + 1 ELSE i, ie - 1)
      fracDigits == IF fe > ie THEN SubSeq(s, ie + 1, fe - 1) ELSE <<>>
      expNeg == At(s, fe + 1) = "-"
      expFrom == IF At(s, fe + 1) \in {"+", "-"} THEN fe + 2 ELSE fe + 1
      expVal == IF ee > fe
                  THEN (IF expNeg THEN -1 ELSE 1) * DigitsToNat(SubSeq(s, expFrom, ee - 1))
                  ELSE 0
      norm == Normalise(DigitsToNat(intDigits \o fracDigits), expVal - Len(fracDigits))
  IN  IF ie = 0 THEN Fail
      ELSE IF fe = ie /\ ee = fe
        THEN R(TRUE, VInt((IF ng THEN -1 ELSE 1) * DigitsToNat(intDigits)), ie)
        ELSE R(TRUE, VFloat(ng, norm[1], norm[2]), ee)

\* Characters a JSON string may not hold unescaped (strict mode).
Backspace == "BS"
ControlChars == {"\n", "\t", "\r", "\f", Backspace}
HexChars == Digit \cup {"a", "b", "c", "d", "e", "f", "A", "B", "C", "D", "E", "F"}
\* The character an escape \c stands for; "" when \c is no escape.
Unescape(c) ==
  CASE c = "\"" -> "\""
    [] c = "\\" -> "\\"
    [] c = "/" -> "/"
    [] c = "b" -> Backspace
    [] c = "f" -> "\f"
    [] c = "n" -> "\n"
    [] c = "r" -> "\r"
    [] c = "t" -> "\t"
    [] OTHER -> ""

\* py_scanstring from the index after the opening quote
RECURSIVE ScanString(_, _, _)
ScanString(s, i, acc) ==
  LET c == At(s, i)
  IN  IF c = "" THEN Fail
      ELSE IF c = "\"" THEN R(TRUE, VStr(acc), i + 1)
      ELSE IF c \in ControlChars THEN Fail
      ELSE IF c = "\\"
        THEN LET esc == At(s, i + 1)
             IN  IF esc = "u"
                   THEN IF \A k \in 2..5 : At(s, i + k) \in HexChars
                          \* the character is named by its code point
                          THEN ScanString(s, i + 6,
                                 Append(acc, "\\u" \o Lower(<<s[i+2]>>)[1] \o Lower(<<s[i+3]>>)[1]
                                               \o Lower(<<s[i+4]>>)[1] \o Lower(<<s[i+5]>>)[1]))
                          ELSE Fail
                 ELSE IF esc = "" \/ Unescape(esc) = "" THEN Fail
                 ELSE ScanString(s, i + 2, Append(acc, Unescape(esc)))
      ELSE ScanString(s, i + 1, Append(acc, c))

RECURSIVE ScanOnce(_, _)
RECURSIVE ObjectLoop(_, _, _)
RECURSIVE ArrayLoop(_, _, _)

\* JSONObject from the index after "{"
ScanObject(s, i) ==
  LET j == SkipWS(s, i)
  IN  IF At(s, j) = "}" THEN R(TRUE, VDict(<<>>), j + 1)
      ELSE IF At(s, j) # "\"" THEN Fail
      ELSE ObjectLoop(s, j + 1, <<>>)

\* one key : value pair, from the index after the key's opening quote
ObjectLoop(s, i, acc) ==
  LET k == ScanString(s, i, <<>>)
      j == SkipWS(s, k.end)
      v == ScanOnce(s, SkipWS(s, j + 1))
      j3 == SkipWS(s, v.end)
      acc2 == DictSet(acc, k.val.s, v.val)
      j4 == SkipWS(s, j3 + 1)
  IN  IF ~k.ok THEN Fail
      ELSE IF At(s, j) # ":" THEN Fail
      ELSE IF ~v.ok THEN Fail
      ELSE IF At(s, j3) = "}" THEN R(TRUE, VDict(acc2), j3 + 1)
      ELSE IF At(s, j3) # "," THEN Fail
      ELSE IF At(s, j4) # "\"" THEN Fail
      ELSE ObjectLoop(s, j4 + 1, acc2)

\* JSONArray from the index after "["
ScanArray(s, i) ==
  LET j == SkipWS(s, i)
  IN  IF At(s, j) = "]" THEN R(TRUE, VList(<<>>), j + 1)
      ELSE ArrayLoop(s, j, <<>>)

ArrayLoop(s, i, acc) ==
  LET v == ScanOnce(s, i)
      j == SkipWS(s, v.end)
  IN  IF ~v.ok THEN Fail
      ELSE IF At(s, j) = "]" THEN R(TRUE, VList(Append(acc, v.val)), j + 1)
      ELSE IF At(s, j) # "," THEN Fail
      ELSE ArrayLoop(s, SkipWS(s, j + 1), Append(acc, v.val))

\* scan_once: one JSON value at index i
ScanOnce(s, i) ==
  LET c == At(s, i)
      num == ScanNumber(s, i)
  IN  IF c = "" THEN Fail
      ELSE IF c = "\"" THEN ScanString(s, i + 1, <<>>)
      ELSE IF c = "{" THEN ScanObject(s, i + 1)
      ELSE IF c = "[" THEN ScanArray(s, i + 1)
      ELSE IF StartsWith(s, i, Chars("null")) THEN R(TRUE, VNone, i + 4)
      ELSE IF StartsWith(s, i, Chars("true")) THEN R(TRUE, VBool(TRUE), i + 4)
      ELSE IF StartsWith(s, i, Chars("false")) THEN R(TRUE, VBool(FALSE), i + 5)
      ELSE IF num.ok THEN num
      ELSE IF StartsWith(s, i, Chars("NaN")) THEN R(TRUE, VFloatSpecial(Chars("nan")), i + 3)
      ELSE IF StartsWith(s, i, Chars("Infinity"))
        THEN R(TRUE, VFloatSpecial(Chars("inf")), i + 8)
      ELSE IF StartsWith(s, i, Chars("-Infinity"))
        THEN R(TRUE, VFloatSpecial(Chars("-inf")), i + 9)
      ELSE Fail

\* json.loads(s): one value, whitespace around it, nothing else
Loads(s) ==
  LET r == ScanOnce(s, SkipWS(s, 1))
  IN  IF r.ok /\ SkipWS(s, r.end) = Len(s) + 1 THEN r ELSE Fail

(***************************************************************************)
(* str(val) of a number                                                    *)
(***************************************************************************)
Zeros(k) == [i \in 1..k |-> "0"]

\* repr of a finite float: fixed notation for -4 < decpt <= 16, else
\* scientific with an exponent of at least two digits
FloatStr(v) ==
  LET ds == NatToDigits(v.n)
      nd == Len(ds)
      decpt == nd + v.e
      sign == IF v.neg THEN <<"-">> ELSE <<>>
      ex == decpt - 1
      exDigits == NatToDigits(IF ex < 0 THEN -ex ELSE ex)
      body ==
        IF v.n = 0 THEN Chars("0.0")
        ELSE IF decpt > 16 \/ decpt < -3
          THEN <<ds[1]>>
               \o (IF nd > 1 THEN <<".">> \o SubSeq(ds, 2, nd) ELSE <<>>)
               \o <<"e", IF ex < 0 THEN "-" ELSE "+">>
               \o (IF Len(exDigits) < 2 THEN <<"0">> ELSE <<>>) \o exDigits
        ELSE IF decpt <= 0 THEN Chars("0.") \o Zeros(-decpt) \o ds
        ELSE IF decpt >= nd THEN ds \o Zeros(decpt - nd) \o Chars(".0")
        ELSE SubSeq(ds, 1, decpt) \o <<".">> \o SubSeq(ds, decpt + 1, nd)
  IN  sign \o body

\* str(val) for the values isinstance(val, (int, float)) accepts: int,
\* float and bool (bool is a subclass of int)
PyStr(v) ==
  CASE v.t = "bool" -> IF v.n = 1 THEN Chars("True") ELSE Chars("False")
    [] v.t = "int" -> IF v.n < 0 THEN <<"-">> \o NatToDigits(-v.n) ELSE NatToDigits(v.n)
    [] v.t = "float" -> IF v.s # <<>> THEN v.s ELSE FloatStr(v)

(***************************************************************************)
(* parse_json_response                                                     *)
(***************************************************************************)
\* A variant of BraceSpan: the greedy pattern \{[\s\S]*\}, from the first "{"
\* to the last "}".
BraceSpan_greedy(s) ==
  LET opens == {i \in 1..Len(s) : s[i] = "{"}
      first == CHOOSE i \in opens : \A k \in opens : i <= k
      closes == {j \in 1..Len(s) : s[j] = "}" /\ j > first}
      last == CHOOSE j \in closes : \A k \in closes : j >= k
  IN  IF opens = {} THEN <<>>
      ELSE IF closes = {} THEN <<>>
      ELSE SubSeq(s, first, last)

\* re.search(r"\{[\s\S]*?\}", s): the span from the first "{" to the
\* nearest "}" after it; <<>> when there is none
BraceSpan(s) ==
  LET opens == {i \in 1..Len(s) : s[i] = "{"}
      first == CHOOSE i \in opens : \A k \in opens : i <= k
      closes == {j \in 1..Len(s) : s[j] = "}" /\ j > first}
      near == CHOOSE j \in closes : \A k \in closes : j <= k
  IN  IF opens = {} THEN <<>>
      ELSE IF closes = {} THEN <<>>
      ELSE SubSeq(s, first, near)

\* A variant of parse_json_response without the direct attempt of lines 110-115.
parse_json_response_span_only(text) ==
  IF text = NoText \/ text = <<>> THEN VNone
  ELSE
    LET t == Strip(text)
        t_clean == Strip(RemoveAll(t, SixBackticks))
        match == BraceSpan(t_clean)
        obj == Loads(match)
    IN  IF match # <<>> /\ obj.ok /\ obj.val.t = "dict" THEN obj.val
        ELSE VNone

\* A variant of parse_json_response without the isinstance test of line 113.
parse_json_response_any_json(text) ==
  IF text = NoText \/ text = <<>> THEN VNone
  ELSE
    LET t == Strip(text)
        direct == Loads(t)
        t_clean == Strip(RemoveAll(t, SixBackticks))
        match == BraceSpan(t_clean)
        obj == Loads(match)
    IN  IF direct.ok THEN direct.val
        ELSE IF match # <<>> /\ obj.ok /\ obj.val.t = "dict" THEN obj.val
        ELSE VNone

\* parse_json_response(text): a dict, or VNone
parse_json_response(text) ==
  IF text = NoText \/ text = <<>> THEN VNone
  ELSE
    LET t == Strip(text)
        direct == Loads(t)
        t_clean == Strip(RemoveAll(t, SixBackticks))
        match == BraceSpan(t_clean)
        obj == Loads(match)
    IN  IF direct.ok /\ direct.val.t = "dict" THEN direct.val
        ELSE IF match # <<>> /\ obj.ok /\ obj.val.t = "dict" THEN obj.val
        ELSE VNone

(***************************************************************************)
(* The test case registry and check_correctness                            *)
(***************************************************************************)
TestCase(ident, cat, prompt_name, keyword) ==
  [id |-> ident, category |-> cat, prompt |-> prompt_name, expected_keyword |-> keyword]

\* A variant of the registry whose second entry repeats the first category.
TEST_CASES_repeated ==
  << TestCase("test_logic_ad_hominem", "LOGIC", "LOGIC_PROMPT", Chars("Ad Hominem")),
     TestCase("test_math_bayes_theorem", "LOGIC", "MATH_PROMPT", Chars("0.625")),
     TestCase("test_code_max_path_sum", "CODING", "CODING_PROMPT", Chars("maxPathSum")) >>

\* The prompts are sent as they are and never read: each is its name.
TEST_CASES ==
  << TestCase("test_logic_ad_hominem", "LOGIC", "LOGIC_PROMPT", Chars("Ad Hominem")),
     TestCase("test_math_bayes_theorem", "MATH", "MATH_PROMPT", Chars("0.625")),
     TestCase("test_code_max_path_sum", "CODING", "CODING_PROMPT", Chars("maxPathSum")) >>

\* What a call gives back: a returned boolean, or an exception raised.
Returned(b) == [raised |-> FALSE, value |-> b]
Raised == [raised |-> TRUE, value |-> FALSE]

\* lines 133-138: some value of the mapping holds the keyword
ValueMatches(expected, val) ==
  \/ val.t = "str" /\ Contains(expected, Lower(val.s))
  \/ val.t \in {"int", "float", "bool"} /\ Contains(expected, PyStr(val))

\* A variant of check_correctness without the raw-text fallback of line 141.
check_correctness_no_fallback(test_case, response_obj, raw_text) ==
  LET expected == Lower(test_case.expected_keyword)
      truthy == response_obj.t = "dict" /\ response_obj.items # <<>>
  IN  Returned(truthy /\ \E i \in 1..Len(response_obj.items) :
                           ValueMatches(expected, response_obj.items[i][2]))

\* check_correctness(test_case, response_obj, raw_text)
check_correctness(test_case, response_obj, raw_text) ==
  LET expected == Lower(test_case.expected_keyword)
      truthy == response_obj.t = "dict" /\ response_obj.items # <<>>
  IN  IF truthy /\ \E i \in 1..Len(response_obj.items) :
                      ValueMatches(expected, response_obj.items[i][2])
        THEN Returned(TRUE)
      ELSE IF raw_text = NoText THEN Raised   \* None has no lower()
      ELSE Returned(Contains(expected, Lower(raw_text)))

(***************************************************************************)
(* main: the run over models x test cases                                  *)
(***************************************************************************)
VARIABLES
  pc,               \* where main is: "select", "model", "generate", "analyze",
                    \* "finalize", "csv", "done", "aborted"
  args_models,      \* args.models: NoText when --models is not given
  args_limit,       \* args.limit
  all_models,       \* what get_all_models returned; NotCalled before the call
  models_to_test,
  mi,               \* index of the model of the outer loop
  ti,               \* index of the test case of the inner loop
  model_stats,
  res,              \* the last result of ollama_generate
  results_summary,
  resp_file,        \* full_responses.txt
  summary_csv,      \* benchmark_summary.csv
  calls,            \* history: the generation calls issued, in order
  flag_writes,      \* history: per model, how often each pass flag was assigned
  \* the calls of the two pure functions on inputs of their own
  p_in, p_out, e_in, e_out

vars == << pc, args_models, args_limit, all_models, models_to_test, mi, ti, model_stats, res,
           results_summary, resp_file, summary_csv, calls, flag_writes,
           p_in, p_out, e_in, e_out >>
pureVars == << p_in, p_out, e_in, e_out >>
mainVars == << pc, args_models, args_limit, all_models, models_to_test, mi, ti, model_stats, res,
               results_summary, resp_file, summary_csv, calls, flag_writes >>

\* Latencies are whole seconds 1..MaxLatency.
MaxLatency == 2
\* default of --limit
DefaultLimit == 5

\* s.split(sep) for a one-character sep
RECURSIVE Split(_, _)
Split(s, sep) ==
  IF \E i \in 1..Len(s) : s[i] = sep
    THEN LET i == CHOOSE k \in 1..Len(s) : s[k] = sep /\ \A j \in 1..(k - 1) : s[j] # sep
         IN  <<SubSeq(s, 1, i - 1)>> \o Split(SubSeq(s, i + 1, Len(s)), sep)
    ELSE <<s>>

NonEmpty(s) == s # <<>>
\* [m.strip() for m in args.models.split(",") if m.strip()]
ExplicitModels(arg) ==
  LET parts == Split(arg, ",")
  IN  SelectSeq([i \in 1..Len(parts) |-> Strip(parts[i])], NonEmpty)

\* seq[:n] for n >= 0
Take(seq, n) == SubSeq(seq, 1, IF n < Len(seq) THEN n ELSE Len(seq))

\* The command lines (--models, --limit) of the runs, and what get_all_models
\* may return (an empty list on any failure).
Invocations ==
  { [models |-> NoText, limit |-> DefaultLimit],
    [models |-> <<>>, limit |-> 0],
    [models |-> Chars("m1"), limit |-> DefaultLimit],
    [models |-> Chars(" m2 ,,m2"), limit |-> DefaultLimit],
    [models |-> Chars(","), limit |-> DefaultLimit],
    [models |-> Chars(" "), limit |-> DefaultLimit] }
Discoveries == { <<>>, <<Chars("m1")>> }
\* all_models before get_all_models is called
NotCalled == << NoText >>

\* The texts a successful generation may hold, and the message of a failed one.
Responses ==
  { Chars("{\"a\": \"An ad hominem\", \"b\": 0.625}"),
    Chars("Sure: {\"code\": {\"x\": 1}} see maxPathSum") }
Errors == { Chars("timeout") }

\* ollama_generate: either branch of its try
GenerationResults ==
  { [success |-> TRUE, latency |-> l, response |-> r, error |-> NoText] :
      l \in 1..MaxLatency, r \in Responses }
  \cup
  { [success |-> FALSE, latency |-> MaxLatency, response |-> NoText, error |-> e] :
      e \in Errors }
NoResult == [success |-> FALSE, latency |-> 0, response |-> NoText, error |-> NoText]

\* A latency average as the fraction num / den.
Frac(a, b) == [num |-> a, den |-> b]
RECURSIVE Sum(_)
Sum(seq) == IF seq = <<>> THEN 0 ELSE Head(seq) + Sum(Tail(seq))
\* statistics.mean
Mean(samples) == Frac(Sum(samples), Len(samples))

\* lines 207-214
NewModelStats(model) ==
  [model |-> model, logic_pass |-> FALSE, math_pass |-> FALSE, code_pass |-> FALSE,
   avg_latency |-> Frac(0, 1), latencies |-> <<>>]
NoStats == NewModelStats(NoText)
NoWrites == [LOGIC |-> 0, MATH |-> 0, CODING |-> 0]

\* a file not yet created
NoFile == [exists |-> FALSE, content |-> <<>>]

MainInit ==
  /\ pc = "select"
  /\ \E inv \in Invocations : args_models = inv.models /\ args_limit = inv.limit
  /\ all_models = NotCalled
  /\ models_to_test = <<>>
  /\ mi = 0
  /\ ti = 0
  /\ model_stats = NoStats
  /\ res = NoResult
  /\ results_summary = <<>>
  /\ resp_file = NoFile
  /\ summary_csv = NoFile
  /\ calls = <<>>
  /\ flag_writes = <<>>

\* lines 197-202: results_summary = [] and full_responses.txt opened for writing
EnterLoop(models) ==
  /\ models_to_test' = models
  /\ results_summary' = <<>>
  /\ resp_file' = [exists |-> TRUE, content |-> <<>>]
  /\ mi' = 1
  /\ pc' = "model"
  /\ UNCHANGED << pureVars, args_models, args_limit, ti, model_stats, res, summary_csv,
                  calls, flag_writes >>

\* lines 188-189: --models given and not empty
SelectExplicit ==
  /\ pc = "select"
  /\ args_models # NoText /\ args_models # <<>>
  /\ UNCHANGED all_models
  /\ EnterLoop(ExplicitModels(args_models))

\* A variant of SelectDiscovered without the return of line 194.
SelectDiscovered_proceeding ==
  /\ pc = "select"
  /\ args_models = NoText \/ args_models = <<>>
  /\ \E found \in Discoveries :
       /\ all_models' = found
       /\ EnterLoop(Take(found, args_limit))

\* lines 191-195: discovery, and the return when it finds nothing
SelectDiscovered ==
  /\ pc = "select"
  /\ args_models = NoText \/ args_models = <<>>
  /\ \E found \in Discoveries :
       /\ all_models' = found
       /\ IF found = <<>>
            THEN /\ pc' = "aborted"
                 /\ UNCHANGED << pureVars, args_models, args_limit, models_to_test, mi, ti,
                                 model_stats, res, results_summary, resp_file, summary_csv,
                                 calls, flag_writes >>
            ELSE EnterLoop(Take(found, args_limit))

\* lines 203-214: the next model of the loop
BeginModel ==
  /\ pc = "model"
  /\ mi <= Len(models_to_test)
  /\ resp_file' = [resp_file EXCEPT !.content = Append(@, <<"MODEL", models_to_test[mi]>>)]
  /\ model_stats' = NewModelStats(models_to_test[mi])
  /\ flag_writes' = Append(flag_writes, NoWrites)
  /\ ti' = 1
  /\ pc' = "generate"
  /\ UNCHANGED << pureVars, all_models, args_models, args_limit, models_to_test, mi, res, results_summary,
                  summary_csv, calls >>

\* line 219: the generation call returns
Generate ==
  /\ pc = "generate"
  /\ \E r \in GenerationResults : res' = r
  /\ calls' = Append(calls, [m |-> mi, t |-> ti, success |-> res'.success])
  /\ pc' = "analyze"
  /\ UNCHANGED << pureVars, all_models, args_models, args_limit, models_to_test, mi, ti, model_stats,
                  results_summary, resp_file, summary_csv, flag_writes >>

\* lines 222-227: what the transcript gets for one test
TranscriptEntry(tc, r) ==
  << "TEST", tc.category, tc.id,
     IF r.success THEN <<"RESPONSE", r.response>> ELSE <<"ERROR", r.error>> >>

\* lines 232-233 on each test case and each text a generation may hold
\* (evaluated once)
Verdict ==
  [i \in 1..Len(TEST_CASES), text \in Responses |->
     check_correctness(TEST_CASES[i], parse_json_response(text), text).value]

\* lines 230-233: the verdict of test case i
Passed(i, r) == IF r.success THEN Verdict[i, r.response] ELSE FALSE

\* A variant of WithSample that takes the sample of a failed call too.
WithSample_always(stats, r) == [stats EXCEPT !.latencies = Append(@, r.latency)]

\* line 234: a latency sample for a successful call only
WithSample(stats, r) ==
  IF r.success
    THEN [stats EXCEPT !.latencies = Append(@, r.latency)]
    ELSE stats

\* lines 236-238
WithFlags(stats, tc, passed) ==
  [stats EXCEPT
     !.logic_pass = IF tc.category = "LOGIC" THEN passed ELSE @,
     !.math_pass = IF tc.category = "MATH" THEN passed ELSE @,
     !.code_pass = IF tc.category = "CODING" THEN passed ELSE @]

\* A variant of Analyze in which a failed call ends the run.
Analyze_raising ==
  /\ pc = "analyze"
  /\ IF res.success
       THEN /\ resp_file' = [resp_file EXCEPT
                               !.content = Append(@, TranscriptEntry(TEST_CASES[ti], res))]
            /\ model_stats' = WithFlags(WithSample(model_stats, res), TEST_CASES[ti],
                                        Passed(ti, res))
            /\ flag_writes' =
                 [flag_writes EXCEPT ![Len(flag_writes)] =
                    [c \in {"LOGIC", "MATH", "CODING"} |->
                       IF c = TEST_CASES[ti].category THEN @[c] + 1 ELSE @[c]]]
            /\ ti' = ti + 1
            /\ pc' = IF ti + 1 <= Len(TEST_CASES) THEN "generate" ELSE "finalize"
       ELSE /\ pc' = "raised"
            /\ UNCHANGED << resp_file, model_stats, flag_writes, ti >>
  /\ UNCHANGED << pureVars, all_models, args_models, args_limit, models_to_test, mi, res,
                  results_summary, summary_csv, calls >>

\* lines 221-241: the transcript entry, the verdict, the sample and the flag of
\* one test case; then the next test case
Analyze ==
  /\ pc = "analyze"
  /\ LET tc == TEST_CASES[ti]
     IN  /\ resp_file' = [resp_file EXCEPT !.content = Append(@, TranscriptEntry(tc, res))]
         /\ model_stats' = WithFlags(WithSample(model_stats, res), tc, Passed(ti, res))
         /\ flag_writes' =
              [flag_writes EXCEPT ![Len(flag_writes)] =
                 [c \in {"LOGIC", "MATH", "CODING"} |->
                    IF c = tc.category THEN @[c] + 1 ELSE @[c]]]
  /\ ti' = ti + 1
  /\ pc' = IF ti + 1 <= Len(TEST_CASES) THEN "generate" ELSE "finalize"
  /\ UNCHANGED << pureVars, all_models, args_models, args_limit, models_to_test, mi, res, results_summary,
                  summary_csv, calls >>

\* A variant of Finalized that divides by the number of test cases.
Finalized_over_tests(stats) ==
  IF stats.latencies # <<>>
    THEN [stats EXCEPT !.avg_latency = Frac(Sum(stats.latencies), Len(TEST_CASES))]
    ELSE stats

\* lines 244-245
Finalized(stats) ==
  IF stats.latencies # <<>>
    THEN [stats EXCEPT !.avg_latency = Mean(stats.latencies)]
    ELSE stats

\* lines 243-247: the average, and the stats appended to the results
FinalizeModel ==
  /\ pc = "finalize"
  /\ model_stats' = Finalized(model_stats)
  /\ results_summary' = Append(results_summary, model_stats')
  /\ mi' = mi + 1
  /\ pc' = "model"
  /\ UNCHANGED << pureVars, all_models, args_models, args_limit, models_to_test, ti, res, resp_file,
                  summary_csv, calls, flag_writes >>

\* f"{x:.2f}": the hundredths nearest to num / den
Format2(x) ==
  LET h == (200 * x.num + x.den) \div (2 * x.den)
      cents == NatToDigits(h % 100)
  IN  NatToDigits(h \div 100) \o <<".">>
        \o (IF Len(cents) < 2 THEN <<"0">> ELSE <<>>) \o cents

PassFail(b) == IF b THEN "PASS" ELSE "FAIL"
Score(b) == IF b THEN 1 ELSE 0
\* line 254
TotalScore(s) == Score(s.logic_pass) + Score(s.math_pass) + Score(s.code_pass)
\* lines 255-262
CsvRow(s) ==
  << s.model, Format2(s.avg_latency) \o <<"s">>, PassFail(s.logic_pass),
     PassFail(s.math_pass), PassFail(s.code_pass), TotalScore(s) >>
CsvHeader == << "Model", "Avg Latency", "Logic", "Math", "Coding", "Total Score (/3)" >>

\* lines 249-264: the loop is over; the summary is written
WriteSummary ==
  /\ pc = "model"
  /\ mi > Len(models_to_test)
  /\ summary_csv' =
       [exists |-> TRUE,
        content |-> <<CsvHeader>> \o [i \in 1..Len(results_summary) |-> CsvRow(results_summary[i])]]
  /\ pc' = "done"
  /\ UNCHANGED << pureVars, all_models, args_models, args_limit, models_to_test, mi, ti, model_stats, res,
                  results_summary, resp_file, calls, flag_writes >>

(***************************************************************************)
(* Inputs of the two pure functions                                        *)
(***************************************************************************)
\* json.dumps with its default separators: the well-formed JSON text of a
\* value.  It builds inputs; the parser never calls it.
EscapeChar(c) ==
  CASE c = "\"" -> Chars("\\\"")
    [] c = "\\" -> Chars("\\\\")
    [] c = "\n" -> Chars("\\n")
    [] c = "\t" -> Chars("\\t")
    [] c = "\r" -> Chars("\\r")
    [] c = "\f" -> Chars("\\f")
    [] OTHER -> <<c>>
RECURSIVE EscapeStr(_)
EscapeStr(s) == IF s = <<>> THEN <<>> ELSE EscapeChar(Head(s)) \o EscapeStr(Tail(s))
Quoted(s) == <<"\"">> \o EscapeStr(s) \o <<"\"">>

RECURSIVE Dumps(_)
RECURSIVE DumpsList(_)
RECURSIVE DumpsPairs(_)
DumpsList(its) ==
  IF its = <<>> THEN <<>>
  ELSE Dumps(Head(its)) \o (IF Len(its) > 1 THEN Chars(", ") ELSE <<>>) \o DumpsList(Tail(its))
DumpsPairs(its) ==
  IF its = <<>> THEN <<>>
  ELSE Quoted(Head(its)[1]) \o Chars(": ") \o Dumps(Head(its)[2])
         \o (IF Len(its) > 1 THEN Chars(", ") ELSE <<>>) \o DumpsPairs(Tail(its))
Dumps(v) ==
  CASE v.t = "str" -> Quoted(v.s)
    [] v.t = "int" -> PyStr(v)
    [] v.t = "float" -> PyStr(v)
    [] v.t = "bool" -> IF v.n = 1 THEN Chars("true") ELSE Chars("false")
    [] v.t = "none" -> Chars("null")
    [] v.t = "list" -> <<"[">> \o DumpsList(v.items) \o <<"]">>
    [] v.t = "dict" -> <<"{">> \o DumpsPairs(v.items) \o <<"}">>

\* How deep the mappings of the inputs nest.
MaxNest == 1

Atoms ==
  { VStr(Chars("0.625")), VStr(Chars("x}y")), VStr(Chars("{")), VStr(SixBackticks),
    VInt(2), VFloat(FALSE, 625, -3), VBool(TRUE), VNone, VList(<<VInt(1), VInt(2)>>) }
Keys == { Chars("a"), Chars("b") }
FlatMappings ==
  { VDict(<<>>) }
  \cup { VDict(<< <<k, v>> >>) : k \in Keys, v \in Atoms }
  \cup { VDict(<< <<Chars("a"), v>>, <<Chars("b"), w>> >>) :
           v \in { VStr(Chars("1")), VInt(2) }, w \in { VStr(Chars("Ad Hominem")), VInt(-7) } }
RECURSIVE Mappings(_)
Mappings(d) ==
  IF d = 0 THEN FlatMappings
  ELSE Mappings(d - 1) \cup { VDict(<< <<Chars("r"), m>> >>) : m \in Mappings(d - 1) }
\* JSON values that are no mapping: scalars, strings and arrays, some of them
\* holding a mapping or a brace
NonMappings ==
  (Atoms \ { VNone, VBool(TRUE) })
  \cup { VList(<<>>), VList(<<VInt(1), VInt(2), VInt(3)>>), VStr(Chars("{}")),
         VStr(Chars("}{")), VInt(-12), VFloat(FALSE, 15, -1),
         VList(<<VDict(<< <<Chars("a"), VInt(1)>> >>)>>),
         VList(<<VInt(1), VDict(<<>>)>>),
         VList(<<VDict(<< <<Chars("a"), VDict(<<>>)>> >>)>>) }

Fence == << Backtick, Backtick, Backtick >>
Prefixes ==
  { <<>>, Chars(" \n"), Chars("Here is the answer:\n"), Fence \o Chars("json\n"),
    Chars("Here:\n") \o Fence \o Chars("\n"), Chars("see {x}: "), SixBackticks }
Suffixes ==
  { <<>>, Chars("\n "), Chars("\nHope that helps."), Chars("\n") \o Fence,
    Chars(" {end}"), SixBackticks }

\* An input made of a JSON value between two texts.
Wrapped(pre, v, suf) ==
  [kind |-> "json", pre |-> pre, val |-> v, suf |-> suf, text |-> pre \o Dumps(v) \o suf]
\* An input that is a text as it is.
RawInput(text) == [kind |-> "raw", pre |-> <<>>, val |-> VNone, suf |-> <<>>, text |-> text]

\* texts that are no JSON
RawTexts ==
  { NoText, <<>>, Chars(" "), Chars("no json here"), Chars("{\"a\": 1,}"), Chars("{a: 1}"),
    Chars("{\"a\": 1} {\"b\": 2}"), Chars("{"), Chars("}{"), Chars("{\"a\": 01}") }

ParserInputs ==
  { Wrapped(pre, v, suf) :
      pre \in Prefixes, v \in Mappings(MaxNest) \cup NonMappings, suf \in Suffixes }
  \cup { RawInput(t) : t \in RawTexts }

NoInput == RawInput(NoText)
NotReturned == [returned |-> FALSE, val |-> VNone]

\* The mappings and raw texts check_correctness is called with; the test
\* cases are those of the registry.
EvalObjects ==
  { VNone, VDict(<<>>),
    VDict(<< <<Chars("fallacy_name"), VStr(Chars("Ad Hominem Attack"))>>,
             <<Chars("reasoning"), VStr(Chars("..."))>> >>),
    VDict(<< <<Chars("a"), VStr(Chars("AD HOMINEM"))>> >>),
    VDict(<< <<Chars("final_answer"), VFloat(FALSE, 625, -3)>> >>),
    VDict(<< <<Chars("a"), VInt(7)>>, <<Chars("b"), VFloat(FALSE, 10625, -3)>> >>),
    VDict(<< <<Chars("a"), VInt(625)>>, <<Chars("b"), VStr(Chars("0,625"))>> >>),
    VDict(<< <<Chars("code"), VStr(Chars("def MaxPathSum(r):"))>> >>),
    VDict(<< <<Chars("a"), VBool(TRUE)>>, <<Chars("b"), VNone>> >>),
    VDict(<< <<Chars("a"), VList(<<VStr(Chars("maxPathSum"))>>)>> >>),
    VDict(<< <<Chars("a"), VDict(<< <<Chars("b"), VStr(Chars("0.625"))>> >>)>> >>),
    VDict(<< <<Chars("a"), VStr(Chars("straw man"))>> >>) }
EvalRawTexts ==
  { NoText, <<>>, Chars("an AD HOMINEM attack"), Chars("def maxPathSum"), Chars("p = 0.625"),
    Chars("nothing"), Chars("0,625 max path sum") }
EvalInputs ==
  { [tc |-> TEST_CASES[i], obj |-> o, raw |-> r] :
      i \in 1..Len(TEST_CASES), o \in EvalObjects, r \in EvalRawTexts }
NoEvalInput == [tc |-> TEST_CASES[1], obj |-> VNone, raw |-> NoText]
NoVerdict == [returned |-> FALSE, raised |-> FALSE, value |-> FALSE]

(***************************************************************************)
(* The specifications                                                      *)
(***************************************************************************)
PureIdle ==
  /\ p_in = NoInput
  /\ p_out = NotReturned
  /\ e_in = NoEvalInput
  /\ e_out = NoVerdict

\* main has not been entered
MainIdle ==
  /\ pc = "idle"
  /\ args_models = NoText
  /\ args_limit = DefaultLimit
  /\ all_models = NotCalled
  /\ models_to_test = <<>>
  /\ mi = 0
  /\ ti = 0
  /\ model_stats = NoStats
  /\ res = NoResult
  /\ results_summary = <<>>
  /\ resp_file = NoFile
  /\ summary_csv = NoFile
  /\ calls = <<>>
  /\ flag_writes = <<>>

\* A run of main.
Init == MainInit /\ PureIdle
Next ==
  \/ SelectExplicit
  \/ SelectDiscovered
  \/ BeginModel
  \/ Generate
  \/ Analyze
  \/ FinalizeModel
  \/ WriteSummary
Spec == Init /\ [][Next]_vars
\* main is one thread that runs on: every call it blocks on returns (the
\* request has a timeout).
LiveSpec == Spec /\ WF_vars(Next)

\* One call of parse_json_response.
ParseCall ==
  /\ ~p_out.returned
  /\ p_out' = [returned |-> TRUE, val |-> parse_json_response(p_in.text)]
  /\ UNCHANGED << mainVars, p_in, e_in, e_out >>
ParserInit ==
  /\ MainIdle
  /\ p_in \in ParserInputs
  /\ p_out = NotReturned
  /\ e_in = NoEvalInput
  /\ e_out = NoVerdict
ParserSpec == ParserInit /\ [][ParseCall]_vars

\* One call of check_correctness.
EvalCall ==
  /\ ~e_out.returned
  /\ LET r == check_correctness(e_in.tc, e_in.obj, e_in.raw)
     IN  e_out' = [returned |-> TRUE, raised |-> r.raised, value |-> r.value]
  /\ UNCHANGED << mainVars, p_in, p_out, e_in >>
EvalInit ==
  /\ MainIdle
  /\ p_in = NoInput
  /\ p_out = NotReturned
  /\ e_in \in EvalInputs
  /\ e_out = NoVerdict
EvalSpec == EvalInit /\ [][EvalCall]_vars

(***************************************************************************)
(* Properties                                                              *)
(***************************************************************************)
\* the lower-cased keyword of a call of check_correctness
Keyword == Lower(e_in.tc.expected_keyword)
\* some value of the mapping is a string holding the keyword, whatever the
\* case, or a number whose decimal string holds it
MappingHolds ==
  /\ e_in.obj.t = "dict"
  /\ \E i \in 1..Len(e_in.obj.items) :
       LET v == e_in.obj.items[i][2]
       IN  \/ v.t = "str" /\ Contains(Keyword, Lower(v.s))
           \/ v.t \in {"int", "float"} /\ Contains(Keyword, PyStr(v))
\* the raw text holds the keyword, whatever the case
RawHolds == e_in.raw # NoText /\ Contains(Keyword, Lower(e_in.raw))

\* C1: a call of check_correctness that returns, returns true if and only
\* if a value of the mapping holds the keyword (a string, case-insensitively,
\* or a number in its decimal string) or the raw text holds it
\* case-insensitively; so the verdict is true whenever the raw text holds the
\* keyword, whatever the mapping, and false when neither holds it.
C1_VerdictIsMappingOrRaw ==
  (e_out.returned /\ ~e_out.raised) => (e_out.value <=> (MappingHolds \/ RawHolds))
\* a mapping none of whose values holds the keyword, a raw text that does: true
C1_Witness ==
  /\ e_out.returned /\ e_out.value
  /\ e_in.obj.t = "dict" /\ e_in.obj.items # <<>>
  /\ ~MappingHolds /\ RawHolds

\* the calls of generation the run has issued for model k
CallsOf(k) == { j \in 1..Len(calls) : calls[j].m = k }
\* the pass flag of a category
Flag(stats, cat) ==
  CASE cat = "LOGIC" -> stats.logic_pass
    [] cat = "MATH" -> stats.math_pass
    [] cat = "CODING" -> stats.code_pass
\* the stats of model k agree with the calls made for it
SamplesAndFlagsFollowCalls(stats, k) ==
  /\ Len(stats.latencies) = Cardinality({ j \in CallsOf(k) : calls[j].success })
  /\ \A j \in CallsOf(k) :
       ~calls[j].success => ~Flag(stats, TEST_CASES[calls[j].t].category)
  /\ \A i \in 1..Len(TEST_CASES) :
       Flag(stats, TEST_CASES[i].category) =>
         \E j \in CallsOf(k) : calls[j].t = i /\ calls[j].success

\* C2: a generation call with success=false adds no latency sample and the
\* flag of its category is false in the finalized stats; a flag is true only
\* if the call of its category succeeded; a model has as many latency samples
\* as successful calls.
C2_FailedCallNoSampleNoPass ==
  /\ \A k \in 1..Len(results_summary) : SamplesAndFlagsFollowCalls(results_summary[k], k)
  /\ pc \in {"generate", "finalize"} => SamplesAndFlagsFollowCalls(model_stats, mi)
\* finalized stats of a model with a failed LOGIC call and two successful calls
C2_Witness ==
  \E k \in 1..Len(results_summary) :
    /\ \E j \in CallsOf(k) : calls[j].t = 1 /\ ~calls[j].success
    /\ Len(results_summary[k].latencies) = 2
    /\ results_summary[k].code_pass

\* the stats of model k have no sample
NoSample(k) == results_summary[k].latencies = <<>>
\* C3: the average latency of finalized stats is the arithmetic mean of the
\* samples of the model, and zero when there is none, which is when all 3
\* calls failed; then the 3 flags are false and the total score is 0.
C3_AverageIsMeanOrZero ==
  \A k \in 1..Len(results_summary) :
    LET s == results_summary[k]
    IN  /\ ~NoSample(k) =>
             s.avg_latency.num * Len(s.latencies) = Sum(s.latencies) * s.avg_latency.den
        /\ NoSample(k) <=> (\A j \in CallsOf(k) : ~calls[j].success)
        /\ NoSample(k) =>
             /\ s.avg_latency.num = 0
             /\ ~s.logic_pass /\ ~s.math_pass /\ ~s.code_pass
             /\ TotalScore(s) = 0
             /\ summary_csv.exists =>
                  /\ summary_csv.content[k + 1][6] = 0
                  /\ summary_csv.content[k + 1][2] = Chars("0.00s")
\* a summary with a model without sample and a model with unequal samples
C3_Witness ==
  /\ pc = "done"
  /\ \E k \in 1..Len(results_summary) : NoSample(k)
  /\ \E k \in 1..Len(results_summary) :
       \E a, b \in 1..Len(results_summary[k].latencies) :
         results_summary[k].latencies[a] # results_summary[k].latencies[b]

\* every test case of every model of the list was attempted, in order
AllAttempted ==
  /\ Len(calls) = Len(TEST_CASES) * Len(models_to_test)
  /\ \A k \in 1..Len(models_to_test) : \A i \in 1..Len(TEST_CASES) :
       LET c == calls[Len(TEST_CASES) * (k - 1) + i] IN c.m = k /\ c.t = i
\* C4: a failed generation call never halts the run: after it the run goes on
\* to the next test case or the next model with the failed test not passed,
\* and the run completes with all 3 test cases attempted for every model.
C4_FailureNeverHalts ==
  /\ [][ (pc = "analyze" /\ ~res.success) =>
           /\ pc' \in {"generate", "finalize"}
           /\ ti' = ti + 1
           /\ ~Flag(model_stats', TEST_CASES[ti].category) ]_vars
  /\ [](pc = "done" => AllAttempted)
  /\ <>(pc \in {"done", "aborted"})
\* a completed run in which a call failed and a later call succeeded
C4_Witness ==
  /\ pc = "done"
  /\ \E j, h \in 1..Len(calls) : j < h /\ ~calls[j].success /\ calls[h].success

C7_NoExceptionEscapes ==
  /\ p_out.returned => p_out.val.t \in {"dict", "none"}
  /\ e_out.returned => ~e_out.raised

\* no character of the text but whitespace
Blank(text) == \A i \in 1..Len(text) : text[i] \in PyWhitespace
\* the input is the JSON text of a value and nothing around it
WholeJson == p_in.kind = "json" /\ Blank(p_in.pre) /\ Blank(p_in.suf)
\* C8: a well-formed JSON mapping given as the whole input, nested mappings
\* and braces inside strings included, comes back as exactly that mapping.
C8_RoundTrip ==
  (p_out.returned /\ WholeJson /\ p_in.val.t = "dict") => p_out.val = p_in.val
\* a mapping that holds a mapping that holds a string with a brace comes back
C8_Witness ==
  /\ p_out.returned /\ p_in.kind = "json" /\ p_in.pre = <<>> /\ p_in.suf = <<>>
  /\ p_in.val = VDict(<< <<Chars("r"), VDict(<< <<Chars("a"), VStr(Chars("x}y"))>> >>)>> >>)
  /\ p_out.val = p_in.val

\* the first span from a "{" to the nearest "}" of the text without its runs
\* of six backticks
FirstSpan(text) == BraceSpan(Strip(RemoveAll(Strip(text), SixBackticks)))
\* that span is the JSON text of a mapping
SpanIsMapping(text) ==
  /\ FirstSpan(text) # <<>>
  /\ Loads(FirstSpan(text)).ok
  /\ Loads(FirstSpan(text)).val.t = "dict"

\* C9 as stated: a whole input that is well-formed JSON but no mapping gives
\* the unparseable signal.
C9_NonMappingUnparseable ==
  (p_out.returned /\ WholeJson /\ p_in.val.t # "dict") => p_out.val = VNone
\* C9: a whole input that is well-formed JSON but no mapping gives the
\* unparseable signal unless its first brace span is the JSON text of a
\* mapping, and then that mapping; no input gives a value that is no mapping.
C9_NonMappingUnlessSpan ==
  /\ p_out.returned => p_out.val.t \in {"dict", "none"}
  /\ (p_out.returned /\ WholeJson /\ p_in.val.t # "dict") =>
       IF SpanIsMapping(p_in.text)
         THEN p_out.val = Loads(FirstSpan(p_in.text)).val
         ELSE p_out.val = VNone
\* the array [1, 2, 3] gives the unparseable signal
C9_Witness ==
  /\ p_out.returned /\ p_in.kind = "json" /\ p_in.pre = <<>> /\ p_in.suf = <<>>
  /\ p_in.val = VList(<<VInt(1), VInt(2), VInt(3)>>)
  /\ p_out.val = VNone

\* the text holds something that is no whitespace
Prose(text) == ~Blank(text)
\* the input is the JSON text of a mapping between two proses
ProseWrapped == p_in.kind = "json" /\ p_in.val.t = "dict" /\ Prose(p_in.pre) /\ Prose(p_in.suf)
\* no "}" before the last character
NoInnerClose(text) == \A i \in 1..(Len(text) - 1) : text[i] # "}"
\* C10 as stated: a well-formed JSON mapping between two proses comes back.
C10_ProseWrappedComesBack ==
  (p_out.returned /\ ProseWrapped) => p_out.val = p_in.val
\* C10: a well-formed JSON mapping between two proses comes back when the
\* leading prose holds no "{" and the text of the mapping holds no "}" before
\* its last character and no run of six backticks; only the first brace span
\* is tried: when it is not the JSON text of a mapping, and the whole text is
\* none either, the result is the unparseable signal.
C10_FirstSpanOnly ==
  (p_out.returned /\ ProseWrapped) =>
    /\ ( /\ ~Contains(<<"{">>, p_in.pre)
         /\ NoInnerClose(Dumps(p_in.val))
         /\ ~Contains(SixBackticks, Dumps(p_in.val)) ) => p_out.val = p_in.val
    /\ ( /\ ~SpanIsMapping(p_in.text)
         /\ ~(Loads(Strip(p_in.text)).ok /\ Loads(Strip(p_in.text)).val.t = "dict") )
         => p_out.val = VNone
\* the mapping of "Here is the answer:\n{...}\nHope that helps." comes back
C10_Witness ==
  /\ p_out.returned
  /\ p_in.kind = "json"
  /\ p_in.pre = Chars("Here is the answer:\n") /\ p_in.suf = Chars("\nHope that helps.")
  /\ p_in.val = VDict(<< <<Chars("a"), VStr(Chars("0.625"))>> >>)
  /\ p_out.val = p_in.val

====
